---- MODULE Spec2Model ----
(***************************************************************************)
(* Model of run.py: a chunked file store.  Command handlers (handle_put,   *)
(* handle_get, handle_delete) run concurrently on a thread pool, share the *)
(* two registries and the memory counter, and hand batches of tasks to the *)
(* io_pool, whose starmap blocks the handler until the batch is done.      *)
(***************************************************************************)
EXTENDS Integers, Sequences, FiniteSets, TLC

\* ---- configuration (config.yaml, read at run.py:24-31) ----
CHUNK_SIZE == 4
NUMBER_OF_IO_PROCESSES == 2
NUMBER_OF_COMMAND_THREADS == 2
MAX_MEMORY_USAGE == 8

\* ---- bounds of the model ----
MaxFiles == 2      \* File objects ever constructed
MaxCmds == 3       \* commands handed to the command pool
MaxFaults == 1     \* environment faults (corrupt / undeletable artifact, failed write)

Handlers == 1..NUMBER_OF_COMMAND_THREADS

\* ---- the file system outside the store: the paths a put may name ----
Paths == {"gone", "dir", "b0", "b10"}

Bytes(n) == [k \in 1..n |-> k]

\* Content of a readable source file, as its sequence of bytes.  A path stands
\* for its own base name (run.py:119), so two puts of one path share a file_name.
Content(path) == IF path = "b10" THEN Bytes(10) ELSE Bytes(0)

\* os.path.exists(path)
PathExists(path) == path # "gone"

\* open(path, 'rb') succeeds (a directory exists but cannot be opened)
PathReadable(path) == path \in {"b0", "b10"}

Min(a, b) == IF a < b THEN a ELSE b
Max(a, b) == IF a > b THEN a ELSE b

\* file.read(CHUNK_SIZE) at byte offset off
ReadChunk(path, off) ==
    SubSeq(Content(path), off + 1, Min(off + CHUNK_SIZE, Len(Content(path))))

RECURSIVE ChunksFrom(_, _)
ChunksFrom(data, off) ==
    IF off >= Len(data) THEN << >>
    ELSE << SubSeq(data, off + 1, Min(off + CHUNK_SIZE, Len(data))) >>
         \o ChunksFrom(data, off + CHUNK_SIZE)

\* The chunks of a source file, in order (what successive reads return).
SourceChunks(path) == ChunksFrom(Content(path), 0)

\* ---- chunk codec ----
\* hashlib.md5(data).hexdigest(): a digest taken as collision-free; None is << >>.
None == << >>
MD5(data) == << Len(data) >> \o data

\* zlib.compress / zlib.decompress: a stored blob is a tagged stream.
Compress(data) == [kind |-> "zlib", data |-> data]
Garbage == [kind |-> "garbage", data |-> << >>]
Decodable(blob) == blob.kind = "zlib"
Decompress(blob) == blob.data

\* One byte of a stored stream flipped so that it still decodes.
FlipByte(blob) == [blob EXCEPT !.data = [@ EXCEPT ![1] = 0]]

\* ---- result records of pool tasks ----
Pending == [st |-> "pending", part_id |-> -1, md5 |-> None, data |-> << >>]
StoreOk(pid, md5) == [st |-> "ok", part_id |-> pid, md5 |-> md5, data |-> << >>]
TaskRaised(pid) == [st |-> "raised", part_id |-> pid, md5 |-> None, data |-> << >>]
LoadOk(data) == [st |-> "ok", part_id |-> -1, md5 |-> None, data |-> data]
LoadErr == [st |-> "err", part_id |-> -1, md5 |-> None, data |-> << >>]
DelOk(pid) == [st |-> "ok", part_id |-> pid, md5 |-> None, data |-> << >>]
DelErr(pid) == [st |-> "err", part_id |-> pid, md5 |-> None, data |-> << >>]

VARIABLES
    current_memory_usage,   \* run.py:15
    file_registry,          \* run.py:17   file_id -> File
    part_obj,               \* every FilePart object constructed, by part_id
    part_registry,          \* run.py:19   keys of the dict (part_id -> part_obj[part_id])
    file_registry_lock,     \* run.py:18   0 or the handler holding it
    part_registry_lock,     \* run.py:20   0 or the handler holding it
    memory_condition,       \* run.py:22   0 or the handler holding the condition's lock
    file_id_counter,        \* run.py:35
    file_part_id_counter,   \* run.py:48
    disk,                   \* chunk artifacts: <<file_id, sequence_number>> -> blob
    undeletable,            \* artifacts whose os.remove raises
    retrieved,              \* names present under retrieved_files/
    task_queue,             \* io_pool: unfinished tasks <<handler, index>>, in submission order
    pc,                     \* position of each command thread
    loc,                    \* locals of the handler each command thread runs
    cmds,                   \* commands accepted so far
    faults,                 \* environment faults so far
    incomplete              \* (history) files whose last finished delete was partial

vars == << current_memory_usage, file_registry, part_obj, part_registry,
           part_registry_lock, file_registry_lock,
                    memory_condition, file_id_counter, file_part_id_counter, disk,
           undeletable, retrieved, task_queue, pc, loc, cmds, faults, incomplete >>

shared == << current_memory_usage, file_registry, part_obj, part_registry,
             part_registry_lock, file_registry_lock,
                    memory_condition, file_id_counter, file_part_id_counter, disk,
             undeletable, retrieved, task_queue >>

NoLocals ==
    [cmd |-> "none", path |-> "", file_id |-> -1, file_name |-> "",
     part_sequence_number |-> 0, file_end |-> FALSE, offset |-> 0,
     batch |-> << >>, memory_needed |-> 0,
     file_parts |-> << >>, i |-> 0, j |-> 0, tasks |-> << >>,
     memory_allocated |-> 0, written |-> << >>, opened |-> FALSE,
     results |-> << >>, iter_size |-> 0, outcome |-> "",
     saw_corrupt |-> FALSE,    \* (history) a part was corrupt when the get opened
     rerun |-> FALSE]          \* (history) the delete follows a partial one

Init ==
    /\ current_memory_usage = 0
    /\ file_registry = << >>
    /\ part_obj = << >>
    /\ part_registry = {}
    /\ file_registry_lock = 0
    /\ part_registry_lock = 0
    /\ memory_condition = 0
    /\ file_id_counter = 0
    /\ file_part_id_counter = 0
    /\ disk = << >>
    /\ undeletable = {}
    /\ retrieved = {}
    /\ task_queue = << >>
    /\ pc = [h \in Handlers |-> "idle"]
    /\ loc = [h \in Handlers |-> NoLocals]
    /\ cmds = 0
    /\ faults = 0
    /\ incomplete = {}

\* ---- File and FilePart constructors (run.py:34-58) ----
\* a faulty constructor: the id is taken and the class counter is left as it was
CounterLeftAsIs(counter) == counter

\* run.py:41, 54: the class counter after a constructor took its id from it
NextCounter(counter) == counter + 1

File(id, name) == [file_name |-> name, number_of_parts |-> 0, status |-> "processing"]

FilePart(fid, seq) ==
    [file_id |-> fid, sequence_number |-> seq, md5_hash |-> None, status |-> "processing"]

\* ---- memory admission controller ----
\* a faulty admission test: it forgets the size of the request
AdmitsIgnoringRequest(cur, size_required) == ~(cur > MAX_MEMORY_USAGE)

\* check_and_update_memory_usage: TRUE iff the request is admitted
Admits(cur, size_required) == ~(cur + size_required > MAX_MEMORY_USAGE)

\* reduce_memory_usage: the counter after the release
Reduced(cur, size_freed) == Max(0, cur - size_freed)

\* memory_condition.notify_all(): every thread inside wait() is woken
NotifyAll(p) ==
    [h \in Handlers |->
        IF p[h] = "put_wait" THEN "put_woken"
        ELSE IF p[h] = "get_wait" THEN "get_woken"
        ELSE p[h]]

\* a handler ends: its outcome is what it printed last ("" if nothing)
Finish(h, out, l) ==
    /\ pc' = [pc EXCEPT ![h] = "done"]
    /\ loc' = [loc EXCEPT ![h] = [l EXCEPT !.outcome = out]]

Goto(h, where, l) ==
    /\ pc' = [pc EXCEPT ![h] = where]
    /\ loc' = [loc EXCEPT ![h] = l]

\* io_pool.starmap(f, tasks): the tasks are queued and the handler blocks
Submitted(h, n) == task_queue \o [k \in 1..n |-> << h, k >>]

AllDone(h) == \A k \in 1..Len(loc[h].results) : loc[h].results[k].st # "pending"


\* ---- handle_put (run.py:109-164) ----

\* run.py:113-121: the existence test, File() and its registration
PutStart(h, path) ==
    /\ pc[h] = "idle"
    /\ cmds < MaxCmds
    /\ cmds' = cmds + 1
    /\ UNCHANGED << current_memory_usage, part_obj, part_registry, part_registry_lock, file_registry_lock,
                    memory_condition,
                    file_part_id_counter, disk, undeletable, retrieved, task_queue, faults,
                    incomplete >>
    /\ IF ~PathExists(path)
       THEN /\ Finish(h, "not_found", [NoLocals EXCEPT !.cmd = "put", !.path = path])
            /\ UNCHANGED << file_registry, file_id_counter >>
       ELSE /\ file_id_counter < MaxFiles
            /\ file_id_counter' = NextCounter(file_id_counter)
            /\ file_registry' = file_registry @@ (file_id_counter :> File(file_id_counter, path))
            /\ Goto(h, "put_open", [NoLocals EXCEPT !.cmd = "put", !.path = path,
                                                    !.file_id = file_id_counter,
                                                    !.file_name = path])

\* run.py:125 (and 161-164): open(path, 'rb')
PutOpen(h) ==
    /\ pc[h] = "put_open"
    /\ UNCHANGED << shared, cmds, incomplete, faults >>
    /\ IF PathReadable(loc[h].path)
       THEN Goto(h, "put_read", loc[h])
       ELSE Finish(h, "io_error", loc[h])

\* run.py:130-141: one turn of the for loop that fills the batch
PutRead(h) ==
    /\ pc[h] = "put_read"
    /\ Len(loc[h].batch) < NUMBER_OF_IO_PROCESSES
    /\ UNCHANGED << current_memory_usage, file_registry, part_registry_lock, file_registry_lock,
                    memory_condition, file_id_counter,
                    disk, undeletable, retrieved, task_queue, cmds, incomplete, faults >>
    /\ LET l == loc[h]
           chunk_data == ReadChunk(l.path, l.offset)
           part_id == file_part_id_counter
       IN IF chunk_data = << >>
          THEN /\ Goto(h, "put_admit", [l EXCEPT !.file_end = TRUE])
               /\ UNCHANGED << part_obj, part_registry, file_part_id_counter >>
          ELSE /\ file_part_id_counter' = NextCounter(file_part_id_counter)
               /\ part_obj' = part_obj @@ (part_id :> FilePart(l.file_id, l.part_sequence_number))
               /\ part_registry' = part_registry \cup {part_id}
               /\ LET l2 == [l EXCEPT !.memory_needed = @ + CHUNK_SIZE,
                                      !.offset = @ + Len(chunk_data),
                                      !.batch = Append(@, [chunk_data |-> chunk_data,
                                                           part_id |-> part_id,
                                                           seq |-> l.part_sequence_number]),
                                      !.part_sequence_number = @ + 1]
                  IN Goto(h, IF Len(l2.batch) = NUMBER_OF_IO_PROCESSES
                             THEN "put_admit" ELSE "put_read", l2)

\* run.py:143 and 148: the admission of the batch and, if admitted, its dispatch
PutAdmit(h) ==
    /\ pc[h] = "put_admit"
    /\ UNCHANGED << file_registry, part_obj, part_registry, part_registry_lock, file_registry_lock,
                    memory_condition,
                    file_id_counter, file_part_id_counter, disk, undeletable, retrieved,
                    cmds, incomplete, faults >>
    /\ LET l == loc[h]
       IN IF Admits(current_memory_usage, l.memory_needed)
          THEN /\ current_memory_usage' = current_memory_usage + l.memory_needed
               /\ task_queue' = Submitted(h, Len(l.batch))
               /\ Goto(h, "put_pool",
                       [l EXCEPT !.results = [k \in 1..Len(l.batch) |-> Pending], !.j = 0])
          ELSE /\ UNCHANGED << current_memory_usage, task_queue >>
               /\ Goto(h, "put_prewait", l)

\* run.py:144-146: memory_condition.wait()
PutWait(h) ==
    /\ pc[h] = "put_prewait"
    /\ UNCHANGED << shared, cmds, incomplete, faults >>
    /\ Goto(h, "put_wait", loc[h])

\* the position a put resumes at after `continue` (run.py:147) or at the end of
\* the loop body (run.py:154): the while test, then a fresh batch
PutLoop(l) == IF l.file_end THEN "put_final" ELSE "put_read"
FreshBatch(l) == [l EXCEPT !.batch = << >>, !.memory_needed = 0, !.results = << >>, !.j = 0]

\* run.py:147: woken, the handler continues with the while test
PutWoken(h) ==
    /\ pc[h] = "put_woken"
    /\ UNCHANGED << shared, cmds, incomplete, faults >>
    /\ Goto(h, PutLoop(loc[h]), FreshBatch(loc[h]))

\* a task of the batch raised
Raised(results) == \E k \in 1..Len(results) : results[k].st = "raised"

\* run.py:148 and 163-164: starmap re-raises what a task raised
PutRaise(h) ==
    /\ pc[h] = "put_pool"
    /\ AllDone(h)
    /\ Raised(loc[h].results)
    /\ UNCHANGED << shared, cmds, incomplete, faults >>
    /\ Finish(h, "io_error", loc[h])

\* run.py:148-152: starmap has returned; one turn of the loop over the results
PutResult(h) ==
    /\ pc[h] = "put_pool"
    /\ AllDone(h)
    /\ ~Raised(loc[h].results)
    /\ loc[h].j < Len(loc[h].results)
    /\ UNCHANGED << current_memory_usage, file_registry, part_registry, part_registry_lock, file_registry_lock,
                    memory_condition,
                    file_id_counter, file_part_id_counter, disk, undeletable, retrieved,
                    task_queue, cmds, incomplete, faults >>
    /\ LET r == loc[h].results[loc[h].j + 1]
       IN IF r.part_id \in part_registry
          THEN /\ part_obj' = [part_obj EXCEPT ![r.part_id].md5_hash = r.md5,
                                               ![r.part_id].status = "ready"]
               /\ Goto(h, "put_pool", [loc[h] EXCEPT !.j = @ + 1])
          ELSE /\ UNCHANGED part_obj             \* KeyError, caught nowhere
               /\ Finish(h, "", loc[h])

\* run.py:154: reduce_memory_usage(memory_needed)
PutRelease(h) ==
    /\ pc[h] = "put_pool"
    /\ AllDone(h)
    /\ ~Raised(loc[h].results)
    /\ loc[h].j = Len(loc[h].results)
    /\ current_memory_usage' = Reduced(current_memory_usage, loc[h].memory_needed)
    /\ pc' = [NotifyAll(pc) EXCEPT ![h] = PutLoop(loc[h])]
    /\ loc' = [loc EXCEPT ![h] = FreshBatch(loc[h])]
    /\ UNCHANGED << file_registry, part_obj, part_registry, part_registry_lock, file_registry_lock,
                    memory_condition,
                    file_id_counter, file_part_id_counter, disk, undeletable, retrieved,
                    task_queue, cmds, incomplete, faults >>

\* run.py:156-159
PutFinal(h) ==
    /\ pc[h] = "put_final"
    /\ UNCHANGED << current_memory_usage, part_obj, part_registry, part_registry_lock, file_registry_lock,
                    memory_condition,
                    file_id_counter, file_part_id_counter, disk, undeletable, retrieved,
                    task_queue, cmds, incomplete, faults >>
    /\ LET l == loc[h]
       IN IF l.file_id \in DOMAIN file_registry
          THEN /\ file_registry' =
                     [file_registry EXCEPT ![l.file_id].status = "ready",
                                           ![l.file_id].number_of_parts =
                                               l.part_sequence_number + 1]
               /\ Finish(h, "put_ok", l)
          ELSE /\ UNCHANGED file_registry        \* KeyError, caught nowhere
               /\ Finish(h, "", l)


\* ---- handle_get (run.py:167-222) ----

\* a faulty readiness test: only a file under deletion is turned away
IsNotDeleted(file_info) == file_info.status # "not_ready"

\* run.py:180: the readiness test on the File found
IsReady(file_info) == file_info.status = "ready"

\* the registered parts of a file
PartsOf(file_id) == {p \in part_registry : part_obj[p].file_id = file_id}

\* list.sort(key=sequence_number) (run.py:186); a put numbers its parts distinctly
RECURSIVE SortBySeq(_)
SortBySeq(S) ==
    IF S = {} THEN << >>
    ELSE LET first == CHOOSE p \in S :
                 \A q \in S : part_obj[p].sequence_number <= part_obj[q].sequence_number
         IN << first >> \o SortBySeq(S \ {first})

\* iteration order of the dict (run.py:249): insertion order, that is by part_id
RECURSIVE SortById(_)
SortById(S) ==
    IF S = {} THEN << >>
    ELSE LET first == CHOOSE p \in S : \A q \in S : p <= q
         IN << first >> \o SortById(S \ {first})

\* run.py:174-176: the file_id is in no registry entry
GetNotFound(h, file_id) ==
    /\ Finish(h, "not_found", [NoLocals EXCEPT !.cmd = "get", !.file_id = file_id])
    /\ UNCHANGED shared

\* run.py:180-182: the File is there but not ready
GetNotReady(h, file_id) ==
    /\ Finish(h, "not_available", [NoLocals EXCEPT !.cmd = "get", !.file_id = file_id])
    /\ UNCHANGED shared

\* run.py:173-182
GetStart(h, file_id) ==
    /\ pc[h] = "idle"
    /\ cmds < MaxCmds
    /\ cmds' = cmds + 1
    /\ UNCHANGED << faults, incomplete >>
    /\ IF file_id \notin DOMAIN file_registry
       THEN GetNotFound(h, file_id)
       ELSE IF ~IsReady(file_registry[file_id])
       THEN GetNotReady(h, file_id)
       ELSE /\ Goto(h, "get_lock", [NoLocals EXCEPT !.cmd = "get", !.file_id = file_id,
                                        !.file_name = file_registry[file_id].file_name])
            /\ UNCHANGED shared

\* run.py:184: part_registry_lock is taken and the iteration over the dict begins
GetLock(h) ==
    /\ pc[h] = "get_lock"
    /\ UNCHANGED << file_registry_lock, memory_condition >>
    /\ part_registry_lock = 0
    /\ part_registry_lock' = h
    /\ Goto(h, "get_iter", [loc[h] EXCEPT !.iter_size = Cardinality(part_registry)])
    /\ UNCHANGED << current_memory_usage, file_registry, part_obj, part_registry,
                    file_id_counter, file_part_id_counter, disk, undeletable, retrieved,
                    task_queue, cmds, incomplete, faults >>

\* the batch of the outer loop (run.py:194), as positions in file_parts
BatchEnd(l) == Min(l.i + NUMBER_OF_IO_PROCESSES, Len(l.file_parts))

\* the outer for loop of handle_get (run.py:193) begins a batch, or the loop is over
\* and the success line is printed (run.py:219)
GetLoop(h, l) ==
    IF l.i < Len(l.file_parts)
    THEN Goto(h, "get_admit", [l EXCEPT !.j = l.i, !.tasks = << >>, !.results = << >>,
                                        !.memory_allocated = 0])
    ELSE Finish(h, "get_ok", l)

\* run.py:185-186: the list of the file's parts, sorted; a dict that changed size
\* under the iteration raises RuntimeError, which nothing catches
GetParts(h) ==
    /\ pc[h] = "get_iter"
    /\ UNCHANGED << file_registry_lock, memory_condition >>
    /\ part_registry_lock' = 0
    /\ UNCHANGED << current_memory_usage, file_registry, part_obj, part_registry,
                    file_id_counter, file_part_id_counter, disk, undeletable, retrieved,
                    task_queue, cmds, incomplete, faults >>
    /\ IF Cardinality(part_registry) # loc[h].iter_size
       THEN Finish(h, "", loc[h])
       ELSE Goto(h, "get_open",
                 [loc[h] EXCEPT !.file_parts = SortBySeq(PartsOf(loc[h].file_id))])

\* the artifact of a part is on disk and does not decode, or decodes to bytes whose
\* digest is not the one recorded for the part
Corrupt(part_id) ==
    LET path == << part_obj[part_id].file_id, part_obj[part_id].sequence_number >>
    IN /\ path \in DOMAIN disk
       /\ \/ ~Decodable(disk[path])
          \/ MD5(Decompress(disk[path])) # part_obj[part_id].md5_hash

\* run.py:188-193: the destination is created (or truncated) and the loop begins
GetOpen(h) ==
    /\ pc[h] = "get_open"
    /\ retrieved' = retrieved \cup {loc[h].file_name}
    /\ GetLoop(h, [loc[h] EXCEPT !.opened = TRUE, !.written = << >>, !.i = 0,
                                 !.saw_corrupt = \E n \in 1..Len(loc[h].file_parts) :
                                                    Corrupt(loc[h].file_parts[n])])
    /\ UNCHANGED << current_memory_usage, file_registry, part_obj, part_registry,
                    part_registry_lock, file_registry_lock,
                    memory_condition, file_id_counter, file_part_id_counter, disk,
                    undeletable, task_queue, cmds, incomplete, faults >>

\* run.py:197-206: one turn of the loop over the parts of the batch
GetAdmit(h) ==
    /\ pc[h] = "get_admit"
    /\ loc[h].j < BatchEnd(loc[h])
    /\ UNCHANGED << file_registry, part_obj, part_registry, part_registry_lock, file_registry_lock,
                    memory_condition,
                    file_id_counter, file_part_id_counter, disk, undeletable, retrieved,
                    task_queue, cmds, incomplete, faults >>
    /\ LET l == loc[h]
           part == part_obj[l.file_parts[l.j + 1]]
       IN IF Admits(current_memory_usage, CHUNK_SIZE)
          THEN /\ current_memory_usage' = current_memory_usage + CHUNK_SIZE
               /\ Goto(h, "get_admit",
                       [l EXCEPT !.memory_allocated = @ + CHUNK_SIZE,
                                 !.tasks = Append(@, [seq |-> part.sequence_number,
                                                      md5 |-> part.md5_hash]),
                                 !.j = @ + 1])
          ELSE /\ UNCHANGED current_memory_usage
               /\ Goto(h, "get_prewait", l)

\* run.py:199-201: memory_condition.wait()
GetWait(h) ==
    /\ pc[h] = "get_prewait"
    /\ UNCHANGED << shared, cmds, incomplete, faults >>
    /\ Goto(h, "get_wait", loc[h])

\* run.py:202: woken, `continue` takes the for loop to the next part
GetWoken(h) ==
    /\ pc[h] = "get_woken"
    /\ UNCHANGED << shared, cmds, incomplete, faults >>
    /\ Goto(h, "get_admit", [loc[h] EXCEPT !.j = @ + 1])

\* run.py:208: starmap(decompress_and_verify_part, tasks)
GetDispatch(h) ==
    /\ pc[h] = "get_admit"
    /\ loc[h].j = BatchEnd(loc[h])
    /\ task_queue' = Submitted(h, Len(loc[h].tasks))
    /\ Goto(h, "get_pool", [loc[h] EXCEPT !.results = [k \in 1..Len(loc[h].tasks) |-> Pending]])
    /\ UNCHANGED << current_memory_usage, file_registry, part_obj, part_registry,
                    part_registry_lock, file_registry_lock,
                    memory_condition, file_id_counter, file_part_id_counter, disk,
                    undeletable, retrieved, cmds, incomplete, faults >>

\* run.py:208-209: starmap returns; reduce_memory_usage(memory_allocated)
GetBarrier(h) ==
    /\ pc[h] = "get_pool"
    /\ AllDone(h)
    /\ current_memory_usage' = Reduced(current_memory_usage, loc[h].memory_allocated)
    /\ pc' = [NotifyAll(pc) EXCEPT ![h] = "get_write"]
    /\ UNCHANGED << loc, file_registry, part_obj, part_registry, part_registry_lock, file_registry_lock,
                    memory_condition,
                    file_id_counter, file_part_id_counter, disk, undeletable, retrieved,
                    task_queue, cmds, incomplete, faults >>

\* the data of the results before position n, in order
RECURSIVE DataUpTo(_, _)
DataUpTo(results, n) ==
    IF n = 0 THEN << >> ELSE Append(DataUpTo(results, n - 1), results[n].data)

\* position of the first result that carries an error, 0 if none
FirstError(results) ==
    IF \E k \in 1..Len(results) : results[k].st = "err"
    THEN CHOOSE k \in 1..Len(results) :
            /\ results[k].st = "err"
            /\ \A m \in 1..(k - 1) : results[m].st # "err"
    ELSE 0

\* run.py:211-217: the loop over the results of the batch
GetWrite(h) ==
    /\ pc[h] = "get_write"
    /\ UNCHANGED << current_memory_usage, file_registry, part_obj, part_registry,
                    part_registry_lock, file_registry_lock,
                    memory_condition, file_id_counter, file_part_id_counter, disk,
                    undeletable, task_queue, cmds, incomplete, faults >>
    /\ LET l == loc[h]
           e == FirstError(l.results)
       IN IF e = 0
          THEN /\ UNCHANGED retrieved
               /\ GetLoop(h, [l EXCEPT !.written = @ \o DataUpTo(l.results, Len(l.results)),
                                       !.i = @ + NUMBER_OF_IO_PROCESSES])
          ELSE LET l2 == [l EXCEPT !.written = @ \o DataUpTo(l.results, e - 1),
                                   !.opened = FALSE]
               IN IF l.file_name \in retrieved
                  THEN /\ retrieved' = retrieved \ {l.file_name}
                       /\ Finish(h, "corrupted", l2)
                  ELSE /\ UNCHANGED retrieved      \* os.remove raises; run.py:221
                       /\ Finish(h, "error", l2)


\* ---- handle_delete (run.py:235-269) ----

\* a faulty not-found branch: the message is printed but the return is missing
DeleteNotFoundNoReturn(h, file_id) ==
    /\ Goto(h, "del_lock", [NoLocals EXCEPT !.cmd = "delete", !.file_id = file_id])
    /\ UNCHANGED shared

\* run.py:244-246: the file_id is in no registry entry
DeleteNotFound(h, file_id) ==
    /\ Finish(h, "not_found", [NoLocals EXCEPT !.cmd = "delete", !.file_id = file_id])
    /\ UNCHANGED shared

\* run.py:241-246
DeleteStart(h, file_id) ==
    /\ pc[h] = "idle"
    /\ cmds < MaxCmds
    /\ cmds' = cmds + 1
    /\ UNCHANGED << faults, incomplete >>
    /\ IF file_id \in DOMAIN file_registry
       THEN /\ file_registry' = [file_registry EXCEPT ![file_id].status = "not_ready"]
            /\ Goto(h, "del_lock", [NoLocals EXCEPT !.cmd = "delete", !.file_id = file_id,
                                                    !.rerun = file_id \in incomplete])
            /\ UNCHANGED << current_memory_usage, part_obj, part_registry,
                            part_registry_lock, file_registry_lock,
                    memory_condition, file_id_counter, file_part_id_counter,
                            disk, undeletable, retrieved, task_queue >>
       ELSE DeleteNotFound(h, file_id)

\* run.py:248: part_registry_lock is taken and the iteration over the dict begins
DeleteLock(h) ==
    /\ pc[h] = "del_lock"
    /\ UNCHANGED << file_registry_lock, memory_condition >>
    /\ part_registry_lock = 0
    /\ part_registry_lock' = h
    /\ Goto(h, "del_iter", [loc[h] EXCEPT !.iter_size = Cardinality(part_registry)])
    /\ UNCHANGED << current_memory_usage, file_registry, part_obj, part_registry,
                    file_id_counter, file_part_id_counter, disk, undeletable, retrieved,
                    task_queue, cmds, incomplete, faults >>

\* run.py:249-255: the file's parts are listed and marked, the lock is released and
\* one delete_file_part task per part is handed to the pool
DeleteParts(h) ==
    /\ pc[h] = "del_iter"
    /\ UNCHANGED << file_registry_lock, memory_condition >>
    /\ part_registry_lock' = 0
    /\ UNCHANGED << current_memory_usage, file_registry, part_registry,
                    file_id_counter, file_part_id_counter, disk, undeletable, retrieved,
                    cmds, incomplete, faults >>
    /\ IF Cardinality(part_registry) # loc[h].iter_size
       THEN /\ Finish(h, "", loc[h])             \* RuntimeError, caught nowhere
            /\ UNCHANGED << part_obj, task_queue >>
       ELSE LET file_parts == SortById(PartsOf(loc[h].file_id))
            IN /\ part_obj' = [p \in DOMAIN part_obj |->
                                  IF p \in PartsOf(loc[h].file_id)
                                  THEN [part_obj[p] EXCEPT !.status = "not_ready"]
                                  ELSE part_obj[p]]
               /\ task_queue' = Submitted(h, Len(file_parts))
               /\ Goto(h, "del_pool",
                       [loc[h] EXCEPT !.file_parts = file_parts,
                                      !.results = [k \in 1..Len(file_parts) |-> Pending],
                                      !.j = 0])

\* run.py:255-262: starmap has returned; one turn of the loop over the results
DeleteResult(h) ==
    /\ pc[h] = "del_pool"
    /\ AllDone(h)
    /\ loc[h].j < Len(loc[h].results)
    /\ UNCHANGED << current_memory_usage, file_registry, part_obj, part_registry_lock, file_registry_lock,
                    memory_condition,
                    file_id_counter, file_part_id_counter, disk, undeletable, retrieved,
                    task_queue, cmds, incomplete, faults >>
    /\ LET r == loc[h].results[loc[h].j + 1]
       IN IF r.st = "err"
          THEN /\ UNCHANGED part_registry
               /\ Goto(h, "del_pool", [loc[h] EXCEPT !.j = @ + 1])
          ELSE /\ part_registry_lock = 0
               /\ IF r.part_id \in part_registry
                  THEN /\ part_registry' = part_registry \ {r.part_id}
                       /\ Goto(h, "del_pool", [loc[h] EXCEPT !.j = @ + 1])
                  ELSE /\ UNCHANGED part_registry     \* KeyError, caught nowhere
                       /\ Finish(h, "", loc[h])

\* run.py:264: all(result[1] is None for result in results)
AllSucceeded(results) == \A k \in 1..Len(results) : results[k].st = "ok"

\* run.py:264-269
DeleteFinal(h) ==
    /\ pc[h] = "del_pool"
    /\ AllDone(h)
    /\ loc[h].j = Len(loc[h].results)
    /\ UNCHANGED << current_memory_usage, part_obj, part_registry, part_registry_lock, file_registry_lock,
                    memory_condition,
                    file_id_counter, file_part_id_counter, disk, undeletable, retrieved,
                    task_queue, cmds, faults >>
    /\ IF AllSucceeded(loc[h].results)
       THEN /\ incomplete' = incomplete \ {loc[h].file_id}
            /\ IF loc[h].file_id \in DOMAIN file_registry
               THEN /\ file_registry' = [f \in DOMAIN file_registry \ {loc[h].file_id} |->
                                             file_registry[f]]
                    /\ Finish(h, "deleted", loc[h])
               ELSE /\ UNCHANGED file_registry        \* KeyError, caught nowhere
                    /\ Finish(h, "", loc[h])
       ELSE /\ incomplete' = incomplete \cup {loc[h].file_id}
            /\ UNCHANGED file_registry
            /\ Finish(h, "partial", loc[h])

\* ---- io_pool: NUMBER_OF_IO_PROCESSES workers take the queued tasks in order ----

\* a task can finish only if fewer than NUMBER_OF_IO_PROCESSES unfinished tasks
\* were queued before it
Runnable == 1..Min(NUMBER_OF_IO_PROCESSES, Len(task_queue))

Dequeued(k) == [m \in 1..(Len(task_queue) - 1) |->
                    IF m < k THEN task_queue[m] ELSE task_queue[m + 1]]

\* the result of task_queue[k] is delivered to the handler that waits for it
Deliver(k, r) ==
    LET h == task_queue[k][1]
        n == task_queue[k][2]
    IN /\ loc' = [loc EXCEPT ![h].results[n] = r]
       /\ task_queue' = Dequeued(k)

\* run.py:136-137, 205, 253: the artifact of a part
ArtifactPath(file_id, sequence_number) == << file_id, sequence_number >>

\* run.py:77-86
compress_and_store_part(k) ==
    /\ k \in Runnable
    /\ loc[task_queue[k][1]].cmd = "put"
    /\ LET l == loc[task_queue[k][1]]
           t == l.batch[task_queue[k][2]]
           storage_path == ArtifactPath(l.file_id, t.seq)
       IN /\ disk' = [p \in DOMAIN disk \cup {storage_path} |->
                         IF p = storage_path THEN Compress(t.chunk_data) ELSE disk[p]]
          /\ Deliver(k, StoreOk(t.part_id, MD5(t.chunk_data)))
    /\ UNCHANGED << current_memory_usage, file_registry, part_obj, part_registry,
                    part_registry_lock, file_registry_lock,
                    memory_condition, file_id_counter, file_part_id_counter,
                    undeletable, retrieved, pc, cmds, incomplete, faults >>

\* run.py:87-89: the write fails and the task raises
StoreFails(k) ==
    /\ k \in Runnable
    /\ loc[task_queue[k][1]].cmd = "put"
    /\ faults < MaxFaults
    /\ faults' = faults + 1
    /\ Deliver(k, TaskRaised(loc[task_queue[k][1]].batch[task_queue[k][2]].part_id))
    /\ UNCHANGED << current_memory_usage, file_registry, part_obj, part_registry,
                    part_registry_lock, file_registry_lock,
                    memory_condition, file_id_counter, file_part_id_counter, disk,
                    undeletable, retrieved, pc, cmds, incomplete >>

\* run.py:92-106: the result for a stored blob (or none) and the expected digest
Verified(path, expected_md5) ==
    IF path \notin DOMAIN disk THEN LoadErr
    ELSE IF ~Decodable(disk[path]) THEN LoadErr
    ELSE IF MD5(Decompress(disk[path])) # expected_md5 THEN LoadErr
    ELSE LoadOk(Decompress(disk[path]))

decompress_and_verify_part(k) ==
    /\ k \in Runnable
    /\ loc[task_queue[k][1]].cmd = "get"
    /\ LET l == loc[task_queue[k][1]]
           t == l.tasks[task_queue[k][2]]
       IN Deliver(k, Verified(ArtifactPath(l.file_id, t.seq), t.md5))
    /\ UNCHANGED << current_memory_usage, file_registry, part_obj, part_registry,
                    part_registry_lock, file_registry_lock,
                    memory_condition, file_id_counter, file_part_id_counter, disk,
                    undeletable, retrieved, pc, cmds, incomplete, faults >>

\* run.py:225-232
delete_file_part(k) ==
    /\ k \in Runnable
    /\ loc[task_queue[k][1]].cmd = "delete"
    /\ LET l == loc[task_queue[k][1]]
           part_id == l.file_parts[task_queue[k][2]]
           storage_path == ArtifactPath(l.file_id, part_obj[part_id].sequence_number)
       IN IF storage_path \in DOMAIN disk
          THEN IF storage_path \in undeletable
               THEN /\ UNCHANGED disk
                    /\ Deliver(k, DelErr(part_id))
               ELSE /\ disk' = [p \in DOMAIN disk \ {storage_path} |-> disk[p]]
                    /\ Deliver(k, DelOk(part_id))
          ELSE /\ UNCHANGED disk
               /\ Deliver(k, DelOk(part_id))
    /\ UNCHANGED << current_memory_usage, file_registry, part_obj, part_registry,
                    part_registry_lock, file_registry_lock,
                    memory_condition, file_id_counter, file_part_id_counter,
                    undeletable, retrieved, pc, cmds, incomplete, faults >>

\* ---- the environment: what happens to stored artifacts behind the store's back ----
\* A fault on an artifact is seen only by the next command that touches the artifact,
\* so the environment acts when such a command is about to touch it.

\* the artifact that the task at position k of the queue removes
Target(k) ==
    LET l == loc[task_queue[k][1]]
        n == task_queue[k][2]
    IN ArtifactPath(l.file_id, part_obj[l.file_parts[n]].sequence_number)

\* the artifact of the n-th part a get has listed
Listed(h, n) ==
    ArtifactPath(loc[h].file_id, part_obj[loc[h].file_parts[n]].sequence_number)

\* a stored artifact is overwritten with bytes that do not decode; only a get reads
\* artifacts, so it happens when a get of the file is about to open its destination
CorruptGarbage(h, n) ==
    /\ pc[h] = "get_open"
    /\ n \in 1..Len(loc[h].file_parts)
    /\ Listed(h, n) \in DOMAIN disk
    /\ Decodable(disk[Listed(h, n)])
    /\ faults < MaxFaults
    /\ faults' = faults + 1
    /\ disk' = [disk EXCEPT ![Listed(h, n)] = Garbage]
    /\ UNCHANGED << current_memory_usage, file_registry, part_obj, part_registry,
                    part_registry_lock, file_registry_lock,
                    memory_condition, file_id_counter, file_part_id_counter,
                    undeletable, retrieved, task_queue, pc, loc, cmds, incomplete >>

\* one byte of a stored artifact is flipped; the stream still decodes
CorruptFlip(h, n) ==
    /\ pc[h] = "get_open"
    /\ n \in 1..Len(loc[h].file_parts)
    /\ Listed(h, n) \in DOMAIN disk
    /\ Decodable(disk[Listed(h, n)])
    /\ faults < MaxFaults
    /\ faults' = faults + 1
    /\ disk' = [disk EXCEPT ![Listed(h, n)] = FlipByte(@)]
    /\ UNCHANGED << current_memory_usage, file_registry, part_obj, part_registry,
                    part_registry_lock, file_registry_lock,
                    memory_condition, file_id_counter, file_part_id_counter,
                    undeletable, retrieved, task_queue, pc, loc, cmds, incomplete >>

\* os.remove of the artifact starts to fail (permissions, a busy file)
MakeUndeletable(k) ==
    /\ k \in Runnable
    /\ loc[task_queue[k][1]].cmd = "delete"
    /\ Target(k) \in DOMAIN disk
    /\ Target(k) \notin undeletable
    /\ faults < MaxFaults
    /\ faults' = faults + 1
    /\ undeletable' = undeletable \cup {Target(k)}
    /\ UNCHANGED << current_memory_usage, file_registry, part_obj, part_registry,
                    part_registry_lock, file_registry_lock,
                    memory_condition, file_id_counter, file_part_id_counter,
                    disk, retrieved, task_queue, pc, loc, cmds, incomplete >>

\* ... and stops failing
MakeDeletable(k) ==
    /\ k \in Runnable
    /\ loc[task_queue[k][1]].cmd = "delete"
    /\ Target(k) \in undeletable
    /\ undeletable' = undeletable \ {Target(k)}
    /\ UNCHANGED << current_memory_usage, file_registry, part_obj, part_registry,
                    part_registry_lock, file_registry_lock,
                    memory_condition, file_id_counter, file_part_id_counter,
                    disk, retrieved, task_queue, pc, loc, cmds, incomplete, faults >>

\* run.py:318: the command thread is free for the next command
Return(h) ==
    /\ pc[h] = "done"
    /\ Goto(h, "idle", NoLocals)
    /\ UNCHANGED << shared, cmds, incomplete, faults >>

FileIds == 0..(MaxFiles - 1)
Slots == 1..NUMBER_OF_IO_PROCESSES

Next ==
    \/ \E h \in Handlers, path \in Paths : PutStart(h, path)
    \/ \E h \in Handlers : PutOpen(h)
    \/ \E h \in Handlers : PutRead(h)
    \/ \E h \in Handlers : PutAdmit(h)
    \/ \E h \in Handlers : PutWait(h)
    \/ \E h \in Handlers : PutWoken(h)
    \/ \E h \in Handlers : PutRaise(h)
    \/ \E h \in Handlers : PutResult(h)
    \/ \E h \in Handlers : PutRelease(h)
    \/ \E h \in Handlers : PutFinal(h)
    \/ \E h \in Handlers, f \in FileIds : GetStart(h, f)
    \/ \E h \in Handlers : GetLock(h)
    \/ \E h \in Handlers : GetParts(h)
    \/ \E h \in Handlers : GetOpen(h)
    \/ \E h \in Handlers : GetAdmit(h)
    \/ \E h \in Handlers : GetWait(h)
    \/ \E h \in Handlers : GetWoken(h)
    \/ \E h \in Handlers : GetDispatch(h)
    \/ \E h \in Handlers : GetBarrier(h)
    \/ \E h \in Handlers : GetWrite(h)
    \/ \E h \in Handlers, f \in FileIds : DeleteStart(h, f)
    \/ \E h \in Handlers : DeleteLock(h)
    \/ \E h \in Handlers : DeleteParts(h)
    \/ \E h \in Handlers : DeleteResult(h)
    \/ \E h \in Handlers : DeleteFinal(h)
    \/ \E k \in Slots : compress_and_store_part(k)
    \/ \E k \in Slots : StoreFails(k)
    \/ \E k \in Slots : decompress_and_verify_part(k)
    \/ \E k \in Slots : delete_file_part(k)
    \/ \E h \in Handlers : \E n \in 1..Len(loc[h].file_parts) : CorruptGarbage(h, n)
    \/ \E h \in Handlers : \E n \in 1..Len(loc[h].file_parts) : CorruptFlip(h, n)
    \/ \E k \in Slots : MakeUndeletable(k)
    \/ \E k \in Slots : MakeDeletable(k)
    \/ \E h \in Handlers : Return(h)

Spec == Init /\ [][Next]_vars


\* ---- scheduling: every command thread and every pool worker keeps running; ----
\* ---- nothing obliges the user to type a command or the environment to fail  ----
HandlerStep(h) ==
    \/ PutOpen(h) \/ PutRead(h) \/ PutAdmit(h) \/ PutWait(h) \/ PutWoken(h)
    \/ PutRaise(h) \/ PutResult(h) \/ PutRelease(h) \/ PutFinal(h)
    \/ GetLock(h) \/ GetParts(h) \/ GetOpen(h) \/ GetAdmit(h) \/ GetWait(h)
    \/ GetWoken(h) \/ GetDispatch(h) \/ GetBarrier(h) \/ GetWrite(h)
    \/ DeleteLock(h) \/ DeleteParts(h) \/ DeleteResult(h) \/ DeleteFinal(h)
    \/ Return(h)

WorkerStep ==
    \E k \in Slots : \/ compress_and_store_part(k)
                     \/ decompress_and_verify_part(k)
                     \/ delete_file_part(k)

FairSpec ==
    /\ Spec
    /\ \A h \in Handlers : WF_vars(HandlerStep(h))
    /\ WF_vars(WorkerStep)


\* ---- the locking skeleton of the handlers ----
\* Spec takes every `with file_registry_lock` and `with memory_condition` block as
\* one step, so these two are free in every state of Spec.  LockSpec takes the
\* blocks apart: a handler is at a line of run.py, and the instructions at a line
\* say what it does to the locks there and where it goes next.  What a branch
\* depends on (registry contents, memory counter, task results) is left open, so
\* every branch of the code can be taken at any time.

Locks == {"file_registry_lock", "part_registry_lock", "memory_condition"}

Holder(lock) ==
    CASE lock = "file_registry_lock" -> file_registry_lock
      [] lock = "part_registry_lock" -> part_registry_lock
      [] lock = "memory_condition" -> memory_condition

SetHolder(lock, v) ==
    /\ file_registry_lock' = IF lock = "file_registry_lock" THEN v ELSE file_registry_lock
    /\ part_registry_lock' = IF lock = "part_registry_lock" THEN v ELSE part_registry_lock
    /\ memory_condition' = IF lock = "memory_condition" THEN v ELSE memory_condition

\* the entry of a `with lock:` block
WithEnter(lock, to) == [op |-> "acquire", lock |-> lock, to |-> to]

\* a faulty `with` block: it is left with the lock still held
WithExitKeepsLock(lock, to) == [op |-> "skip", lock |-> lock, to |-> to]

\* the exit of a `with lock:` block, by falling off its end, by `return` or by an
\* exception that leaves the block
WithExit(lock, to) == [op |-> "release", lock |-> lock, to |-> to]

\* memory_condition.wait(): the condition's lock is released and the thread blocks
\* at `blocked`; once notified it takes the lock again before wait() returns
CondWait(lock, to) == [op |-> "wait", lock |-> lock, to |-> to]
BlockedInWait(to) == [op |-> "blocked", lock |-> "memory_condition", to |-> to]
CondNotifyAll(lock, to) == [op |-> "notify", lock |-> lock, to |-> to]

\* a step that touches no lock (a test, a loop header, an unlocked registry access)
Branch(to) == [op |-> "skip", lock |-> "", to |-> to]

\* io_pool.starmap: the handler blocks until the batch is done
Starmap(to) == [op |-> "starmap", lock |-> "", to |-> to]

\* handle_put; a label pNNN is line NNN of run.py
PutCode(label) ==
    CASE label = "p113" -> {Branch("idle"), Branch("p120")}         \* 113-115, 119
      [] label = "p120" -> {WithEnter("file_registry_lock", "p121")}
      [] label = "p121" -> {WithExit("file_registry_lock", "p125")}
      [] label = "p125" -> {Branch("idle"), Branch("p127")}         \* open fails: 161-164
      [] label = "p127" -> {Branch("p130"), Branch("p156")}         \* while not file_end
      [] label = "p130" -> {Branch("p143")}                         \* 130-141, no lock
      [] label = "p143" -> {WithEnter("memory_condition", "p64")}   \* check_and_update_...
      [] label = "p64" -> {WithExit("memory_condition", "p144"),    \* 65: return False
                           WithExit("memory_condition", "p148")}    \* 66-67
      [] label = "p144" -> {WithEnter("memory_condition", "p146")}
      [] label = "p146" -> {CondWait("memory_condition", "p146_blocked")}
      [] label = "p146_blocked" -> {BlockedInWait("p146_notified")}
      [] label = "p146_notified" -> {WithEnter("memory_condition", "p147")}
      [] label = "p147" -> {WithExit("memory_condition", "p127")}   \* continue
      [] label = "p148" -> {Starmap("p150"), Starmap("idle")}       \* a task raised: 163
      [] label = "p150" -> {Branch("p154"), Branch("idle")}         \* 150-152; KeyError
      [] label = "p154" -> {WithEnter("memory_condition", "p73")}   \* reduce_memory_usage
      [] label = "p73" -> {CondNotifyAll("memory_condition", "p74")}
      [] label = "p74" -> {WithExit("memory_condition", "p127")}
      [] label = "p156" -> {WithEnter("file_registry_lock", "p157")}
      [] label = "p157" -> {WithExit("file_registry_lock", "idle")} \* 157-159; KeyError
      [] OTHER -> {}

\* handle_get; a label gNNN is line NNN of run.py
GetCode(label) ==
    CASE label = "g173" -> {WithEnter("file_registry_lock", "g174")}
      [] label = "g174" -> {WithExit("file_registry_lock", "idle"),   \* return: 176, 182
                            WithExit("file_registry_lock", "g184")}
      [] label = "g184" -> {WithEnter("part_registry_lock", "g185")}
      [] label = "g185" -> {WithExit("part_registry_lock", "g188"),
                            WithExit("part_registry_lock", "idle")}   \* RuntimeError
      [] label = "g188" -> {Branch("g193"), Branch("idle")}           \* open fails: 221
      [] label = "g193" -> {Branch("g197"), Branch("idle")}           \* next batch; 219
      [] label = "g197" -> {Branch("g198"), Branch("g208")}           \* for part in batch
      [] label = "g198" -> {WithEnter("memory_condition", "g64")}
      [] label = "g64" -> {WithExit("memory_condition", "g199"),      \* 65: return False
                           WithExit("memory_condition", "g197")}      \* 66-67, 203-206
      [] label = "g199" -> {WithEnter("memory_condition", "g201")}
      [] label = "g201" -> {CondWait("memory_condition", "g201_blocked")}
      [] label = "g201_blocked" -> {BlockedInWait("g201_notified")}
      [] label = "g201_notified" -> {WithEnter("memory_condition", "g202")}
      [] label = "g202" -> {WithExit("memory_condition", "g197")}     \* continue
      [] label = "g208" -> {Starmap("g209")}
      [] label = "g209" -> {WithEnter("memory_condition", "g73")}
      [] label = "g73" -> {CondNotifyAll("memory_condition", "g74")}
      [] label = "g74" -> {WithExit("memory_condition", "g211")}
      [] label = "g211" -> {Branch("g193"), Branch("idle")}           \* 211-217
      [] OTHER -> {}

\* handle_delete; a label dNNN is line NNN of run.py
DeleteCode(label) ==
    CASE label = "d241" -> {WithEnter("file_registry_lock", "d242")}
      [] label = "d242" -> {WithExit("file_registry_lock", "d248"),
                            WithExit("file_registry_lock", "idle")}   \* return: 246
      [] label = "d248" -> {WithEnter("part_registry_lock", "d249")}
      [] label = "d249" -> {WithExit("part_registry_lock", "d255"),
                            WithExit("part_registry_lock", "idle")}   \* RuntimeError
      [] label = "d255" -> {Starmap("d257")}
      [] label = "d257" -> {Branch("d261"), Branch("d264")}           \* for ... in results
      [] label = "d261" -> {WithEnter("part_registry_lock", "d262")}
      [] label = "d262" -> {WithExit("part_registry_lock", "d257"),
                            WithExit("part_registry_lock", "idle")}   \* KeyError
      [] label = "d264" -> {Branch("d265"), Branch("idle")}           \* 269
      [] label = "d265" -> {WithEnter("file_registry_lock", "d266")}
      [] label = "d266" -> {WithExit("file_registry_lock", "idle")}   \* 266-267; KeyError
      [] OTHER -> {}

\* handle_command (run.py:290-295): a free command thread takes the next command
Code(label) ==
    IF label = "idle" THEN {Branch("p113"), Branch("g173"), Branch("d241")}
    ELSE PutCode(label) \cup GetCode(label) \cup DeleteCode(label)

\* everything but the positions of the handlers and the three locks
data == << current_memory_usage, file_registry, part_obj, part_registry,
           file_id_counter, file_part_id_counter, disk, undeletable, retrieved,
           task_queue, loc, cmds, faults, incomplete >>

LockFree == UNCHANGED << file_registry_lock, part_registry_lock, memory_condition >>

Acquire(h) ==
    \E i \in Code(pc[h]) :
        /\ i.op = "acquire"
        /\ Holder(i.lock) = 0
        /\ SetHolder(i.lock, h)
        /\ pc' = [pc EXCEPT ![h] = i.to]
        /\ UNCHANGED data

Release(h) ==
    \E i \in Code(pc[h]) :
        /\ i.op = "release"
        /\ Holder(i.lock) = h
        /\ SetHolder(i.lock, 0)
        /\ pc' = [pc EXCEPT ![h] = i.to]
        /\ UNCHANGED data

Wait(h) ==
    \E i \in Code(pc[h]) :
        /\ i.op = "wait"
        /\ Holder(i.lock) = h
        /\ SetHolder(i.lock, 0)
        /\ pc' = [pc EXCEPT ![h] = i.to]
        /\ UNCHANGED data

\* where a thread blocked in wait() goes when it is notified
Notified(label) ==
    IF \E i \in Code(label) : i.op = "blocked"
    THEN (CHOOSE i \in Code(label) : i.op = "blocked").to
    ELSE label

Notify(h) ==
    \E i \in Code(pc[h]) :
        /\ i.op = "notify"
        /\ Holder(i.lock) = h
        /\ pc' = [g \in Handlers |-> IF g = h THEN i.to ELSE Notified(pc[g])]
        /\ LockFree
        /\ UNCHANGED data

Step(h) ==
    \E i \in Code(pc[h]) :
        /\ i.op = "skip"
        /\ pc' = [pc EXCEPT ![h] = i.to]
        /\ LockFree
        /\ UNCHANGED data

BatchDone(h) ==
    \E i \in Code(pc[h]) :
        /\ i.op = "starmap"
        /\ pc' = [pc EXCEPT ![h] = i.to]
        /\ LockFree
        /\ UNCHANGED data

LockNext ==
    \/ \E h \in Handlers : Acquire(h)
    \/ \E h \in Handlers : Release(h)
    \/ \E h \in Handlers : Wait(h)
    \/ \E h \in Handlers : Notify(h)
    \/ \E h \in Handlers : Step(h)
    \/ \E h \in Handlers : BatchDone(h)

LockSpec == Init /\ [][LockNext]_vars

\* ======================= the claims =======================

\* a get / put / delete handler that has just ended
Ended(h, cmd) == pc[h] = "done" /\ loc[h].cmd = cmd

\* C1: when a get that listed every part of the file (nothing of it was deleted)
\* reports success, the chunks it wrote to the destination are the chunks of the
\* source file the put ingested, in order, none missing or repeated.
C1_RoundTrip ==
    \A h \in Handlers :
        (/\ Ended(h, "get")
         /\ loc[h].outcome = "get_ok"
         /\ Len(loc[h].file_parts) = Len(SourceChunks(loc[h].file_name)))
            => loc[h].written = SourceChunks(loc[h].file_name)

\* the admission request of handler h is refused in this step
Refused(h) ==
    \/ pc[h] = "put_admit" /\ pc'[h] = "put_prewait"
    \/ pc[h] = "get_admit" /\ pc'[h] = "get_prewait"

\* C2: the memory counter stays within 0 .. MAX_MEMORY_USAGE in every reachable
\* state, and a refused admission leaves the counter unchanged.
C2_AdmissionSafety ==
    /\ [](0 <= current_memory_usage /\ current_memory_usage <= MAX_MEMORY_USAGE)
    /\ [][\A h \in Handlers :
              Refused(h) => current_memory_usage' = current_memory_usage]_vars

\* a handler was refused while another handler filled the counter up to the ceiling
C2_Witness ==
    \E h \in Handlers :
        /\ pc[h] \in {"put_prewait", "get_prewait"}
        /\ current_memory_usage = MAX_MEMORY_USAGE

\* handler h was refused and has not resumed
Blocked(h) == pc[h] \in {"put_prewait", "put_wait", "get_prewait", "get_wait"}

\* C3: a handler whose admission was refused does not stay blocked once all the
\* memory that was held has been released: it eventually resumes (in a run in
\* which the environment injects no fault).
C3_AdmissionLiveness ==
    \A h \in Handlers :
        (Blocked(h) /\ current_memory_usage = 0) ~> (~Blocked(h) \/ faults > 0)

\* handler h starts a get of file_id f in this step
StartsGet(h) == pc[h] = "idle" /\ pc'[h] # "idle" /\ loc'[h].cmd = "get"
StartsDelete(h) == pc[h] = "idle" /\ pc'[h] # "idle" /\ loc'[h].cmd = "delete"

\* C4: a get of a File whose status is 'processing' or 'not_ready' ends at the
\* readiness test as not available: nothing is queued for the pool, no destination
\* is created, and the registries, the artifacts and the memory counter are unchanged.
C4_LifecycleExclusivity ==
    [][\A h \in Handlers :
          (/\ StartsGet(h)
           /\ loc'[h].file_id \in DOMAIN file_registry
           /\ file_registry[loc'[h].file_id].status \in {"processing", "not_ready"})
          => /\ pc'[h] = "done"
             /\ loc'[h].outcome = "not_available"
             /\ ~loc'[h].opened
             /\ UNCHANGED shared]_vars

\* a get was turned away from a file that has parts registered and is not ready
C4_Witness ==
    \E h \in Handlers :
        /\ Ended(h, "get")
        /\ loc[h].outcome = "not_available"
        /\ loc[h].file_id \in DOMAIN file_registry
        /\ file_registry[loc[h].file_id].status \in {"processing", "not_ready"}
        /\ PartsOf(loc[h].file_id) # {}

\* C5: a get of a file one of whose artifacts was corrupt when the get opened its
\* destination does not report success.
C5_CorruptionDetected ==
    \A h \in Handlers :
        (Ended(h, "get") /\ loc[h].saw_corrupt) => loc[h].outcome # "get_ok"

\* C6: a File that is ready has number_of_parts equal to the number of chunks of
\* its source.
C6_PartCount ==
    \A f \in DOMAIN file_registry :
        file_registry[f].status = "ready"
            => file_registry[f].number_of_parts = Len(SourceChunks(file_registry[f].file_name))

\* handler h completes a delete in this step (it prints one of the lines 267, 269)
CompletesDelete(h) ==
    /\ pc[h] # "done"
    /\ pc'[h] = "done"
    /\ loc'[h].cmd = "delete"
    /\ loc'[h].outcome \in {"deleted", "partial"}

\* C7: when a delete completes, every part whose task succeeded is out of the part
\* registry, every part whose task failed is (where still registered) 'not_ready',
\* and the File is gone if every task succeeded and otherwise (where still
\* registered) 'not_ready'.
C7_DeletionReconciliation ==
    [][\A h \in Handlers :
          CompletesDelete(h) =>
              LET l == loc'[h]
              IN /\ \A k \in 1..Len(l.results) :
                        IF l.results[k].st = "ok"
                        THEN l.results[k].part_id \notin part_registry'
                        ELSE l.results[k].part_id \in part_registry'
                                 => part_obj'[l.results[k].part_id].status = "not_ready"
                 /\ IF AllSucceeded(l.results)
                    THEN l.file_id \notin DOMAIN file_registry'
                    ELSE l.file_id \in DOMAIN file_registry'
                             => file_registry'[l.file_id].status = "not_ready"]_vars

\* C8: a delete that is run again after a partial one and finds every remaining
\* artifact deletable ends with the File and all of its parts out of both registries.
C8_DeletionConverges ==
    [][\A h \in Handlers :
          (CompletesDelete(h) /\ loc'[h].rerun /\ loc'[h].outcome = "deleted")
              => /\ loc'[h].file_id \notin DOMAIN file_registry'
                 /\ \A p \in part_registry' : part_obj'[p].file_id # loc'[h].file_id]_vars

\* C9: a get or a delete of a file_id that is in no entry of file_registry ends as
\* not found; registries, memory counter, artifacts and the pool's queue are unchanged.
C9_NotFoundFrame ==
    [][\A h \in Handlers :
          ((StartsGet(h) \/ StartsDelete(h)) /\ loc'[h].file_id \notin DOMAIN file_registry)
          => /\ pc'[h] = "done"
             /\ loc'[h].outcome = "not_found"
             /\ UNCHANGED shared]_vars

\* a get and a delete were told not found while files and parts were registered
C9_Witness ==
    /\ \E h \in Handlers : Ended(h, "get") /\ loc[h].outcome = "not_found"
    /\ \E h \in Handlers : Ended(h, "delete") /\ loc[h].outcome = "not_found"
    /\ DOMAIN file_registry # {}
    /\ part_registry # {}

\* C10: a put whose source is missing or cannot be opened ends with no File record
\* of its own in file_registry.
C10_SourceUnavailable ==
    \A h \in Handlers :
        (Ended(h, "put") /\ ~PathReadable(loc[h].path))
            => loc[h].file_id \notin DOMAIN file_registry

\* handler h ends in this step while it updates or removes registry entries: the
\* result loops of put and delete and their final update of file_registry
EndsAtRegistryUpdate(h) ==
    /\ pc[h] \in {"put_pool", "put_final", "del_pool"}
    /\ pc'[h] = "done"

\* C11: a put or delete handler that ends while it updates or removes registry
\* entries has emitted a terminal outcome (a success line or a failure line), also
\* when another handler removed the entry first.
C11_OneTerminalOutcome ==
    [][\A h \in Handlers : EndsAtRegistryUpdate(h) => loc'[h].outcome # ""]_vars

\* handler h constructs a File in this step (run.py:119)
ConstructsFile(h) == pc[h] = "idle" /\ pc'[h] = "put_open"

\* handler h constructs a FilePart in this step (run.py:138)
ConstructsPart(h) ==
    /\ pc[h] = "put_read"
    /\ Len(loc'[h].batch) = Len(loc[h].batch) + 1

\* the File ids and the FilePart ids that are in use: registered, or held by a put
FileIdsInUse ==
    DOMAIN file_registry
        \cup {loc[h].file_id : h \in {g \in Handlers : loc[g].cmd = "put" /\ loc[g].file_id # -1}}
PartIdsInUse ==
    DOMAIN part_obj
        \cup UNION {{loc[h].batch[k].part_id : k \in 1..Len(loc[h].batch)} :
                       h \in {g \in Handlers : loc[g].cmd = "put"}}

\* C12: every identifier in use was taken from its counter before the counter moved
\* past it; the counters never go back; a File or FilePart that is constructed gets
\* an id that no File or FilePart before it had (an id freed by a delete included),
\* and two puts in flight never hold the same file_id or part_id.
C12_IdentifierUniqueness ==
    /\ [](/\ \A f \in FileIdsInUse : f < file_id_counter
          /\ \A p \in PartIdsInUse : p < file_part_id_counter
          /\ \A g, h \in Handlers :
                (g # h /\ loc[g].cmd = "put" /\ loc[h].cmd = "put" /\ loc[g].file_id # -1)
                    => /\ loc[g].file_id # loc[h].file_id
                       /\ \A m \in 1..Len(loc[g].batch), n \in 1..Len(loc[h].batch) :
                              loc[g].batch[m].part_id # loc[h].batch[n].part_id)
    /\ [][/\ file_id_counter' >= file_id_counter
          /\ file_part_id_counter' >= file_part_id_counter
          /\ \A h \in Handlers :
                /\ ConstructsFile(h) => loc'[h].file_id >= file_id_counter
                /\ ConstructsPart(h) =>
                       loc'[h].batch[Len(loc'[h].batch)].part_id >= file_part_id_counter]_vars

\* File 0 was put and deleted, its id is free, and the File constructed after it
\* has id 1; parts of both files were constructed
C12_Witness ==
    /\ 0 \notin DOMAIN file_registry
    /\ 1 \in DOMAIN file_registry
    /\ \E h \in Handlers : Ended(h, "delete") /\ loc[h].file_id = 0 /\ loc[h].outcome = "deleted"
    /\ \E p, q \in DOMAIN part_obj : part_obj[p].file_id = 0 /\ part_obj[q].file_id = 1

\* handler h resumes in this step after memory_condition.wait() in handle_put
PutResumes(h) == pc[h] = "put_woken" /\ pc'[h] # "put_woken"

\* handler h marks its File ready in this step (run.py:157)
MarksReady(h) == pc[h] = "put_final" /\ pc'[h] = "done" /\ loc'[h].outcome = "put_ok"

\* C13: a put that was refused admission and has been woken asks again for the
\* batch it was refused for, and when a put marks its File ready every FilePart it
\* constructed for the File has been stored (its digest was recorded from the
\* result of compress_and_store_part).
C13_PutRetriesSameBatch ==
    /\ [][\A h \in Handlers :
              PutResumes(h) => /\ pc'[h] = "put_admit"
                               /\ loc'[h].batch = loc[h].batch]_vars
    /\ [][\A h \in Handlers :
              MarksReady(h) =>
                  \A p \in DOMAIN part_obj :
                      part_obj[p].file_id = loc[h].file_id => part_obj[p].md5_hash # None]_vars

\* C14: the tasks a get hands to the pool for a batch are the parts of the batch,
\* each once and in order, and a get that reports success has written one chunk
\* for every part it listed.
C14_GetDispatchesEveryPart ==
    \A h \in Handlers :
        /\ pc[h] = "get_pool" =>
               /\ Len(loc[h].tasks) = BatchEnd(loc[h]) - loc[h].i
               /\ \A k \in 1..Len(loc[h].tasks) :
                      loc[h].tasks[k].seq =
                          part_obj[loc[h].file_parts[loc[h].i + k]].sequence_number
        /\ (Ended(h, "get") /\ loc[h].outcome = "get_ok") =>
               Len(loc[h].written) = Len(loc[h].file_parts)

\* C15: while a handler holds part_registry_lock (it iterates over part_registry,
\* run.py:184-186 and 248-251), no other handler inserts into part_registry, removes
\* from it or updates a FilePart.
C15_RegistrySerialization ==
    [][\A h \in Handlers :
          (part_registry_lock = h /\ part_registry_lock' = h)
              => UNCHANGED << part_registry, part_obj >>]_vars

\* C16: every FilePart in part_registry belongs to a File that is in file_registry.
C16_NoOrphanedParts ==
    \A p \in part_registry : part_obj[p].file_id \in DOMAIN file_registry

\* C17: a File or a FilePart whose status is 'not_ready' keeps that status as long
\* as it exists, and a File that is 'ready' does not go back to 'processing'.
C17_StatusOneWay ==
    [][/\ \A f \in DOMAIN file_registry \cap DOMAIN file_registry' :
             /\ file_registry[f].status = "not_ready"
                    => file_registry'[f].status = "not_ready"
             /\ file_registry[f].status = "ready"
                    => file_registry'[f].status # "processing"
       /\ \A p \in DOMAIN part_obj :
             part_obj[p].status = "not_ready" => part_obj'[p].status = "not_ready"]_vars

\* C18: when a put marks ready a File for which no delete has been issued (its
\* status is still 'processing'), every FilePart registered with its file_id is
\* 'ready', has a digest, and has its artifact on disk.
C18_ReadyImpliesStoredParts ==
    [][\A h \in Handlers :
          (MarksReady(h) /\ file_registry[loc[h].file_id].status = "processing")
              => \A p \in part_registry' :
                     part_obj'[p].file_id = loc[h].file_id
                         => /\ part_obj'[p].status = "ready"
                            /\ part_obj'[p].md5_hash # None
                            /\ ArtifactPath(part_obj'[p].file_id,
                                            part_obj'[p].sequence_number) \in DOMAIN disk']_vars

\* the bytes handler h has been admitted for and has not released yet
HeldBytes(h) ==
    IF pc[h] = "put_pool" THEN loc[h].memory_needed
    ELSE IF pc[h] \in {"get_admit", "get_prewait", "get_wait", "get_woken", "get_pool"}
    THEN loc[h].memory_allocated
    ELSE 0

RECURSIVE SumHeld(_)
SumHeld(S) ==
    IF S = {} THEN 0
    ELSE LET h == CHOOSE g \in S : TRUE IN HeldBytes(h) + SumHeld(S \ {h})

\* C19: the memory counter equals the sum of the bytes that the handlers in flight
\* have been admitted for and have not released; with no put or get between an
\* admission and its release the counter is 0.
C19_MemoryBalance == current_memory_usage = SumHeld(Handlers)

\* the locks handler h holds
Held(h) == {lock \in Locks : Holder(lock) = h}

\* the locks handler h is about to take
Wanted(h) == {i.lock : i \in {j \in Code(pc[h]) : j.op = "acquire"}}

\* handler h waits for the pool to finish its batch
AtBarrier(h) == \E i \in Code(pc[h]) : i.op = "starmap"

\* C20: no handler holds more than one of file_registry_lock, part_registry_lock
\* and memory_condition, none holds a lock while it waits for the pool, and a
\* handler that is about to take a lock holds none, so that no two handlers wait
\* for a lock the other holds.
C20_NoNestedLocking ==
    /\ \A h \in Handlers :
          /\ Cardinality(Held(h)) <= 1
          /\ AtBarrier(h) => Held(h) = {}
          /\ Wanted(h) # {} => Held(h) = {}
    /\ \A g, h \in Handlers :
          ~(/\ g # h
            /\ Wanted(g) \cap Held(h) # {}
            /\ Wanted(h) \cap Held(g) # {})

\* a handler holds part_registry_lock while the other handler, holding nothing, is
\* kept waiting for it
C20_Witness ==
    \E g, h \in Handlers :
        /\ g # h
        /\ Held(g) = {"part_registry_lock"}
        /\ Wanted(h) = {"part_registry_lock"}

====
